---- MODULE Spec2Model ----
(***************************************************************************)
(* Model of src/fetch_papers.py: SemanticScholarFetcher.                   *)
(*                                                                         *)
(* One run is one call of search_papers_with_split (mode "split") or of    *)
(* search_papers_streaming (mode "streaming") on a fresh fetcher.  The     *)
(* server, the network and the file system are the environment: every      *)
(* HTTP attempt nondeterministically succeeds, is answered 429 or raises   *)
(* a RequestException, and every file operation may raise OSError.         *)
(*                                                                         *)
(* Time is counted in tenths of a second (rate_limit_delay = 1.1 s = 11).  *)
(* Line sizes are counted in units of 1/UnitsPerMB of a megabyte.          *)
(***************************************************************************)
EXTENDS Integers, Sequences, FiniteSets, TLC

VARIABLES
    mode,               \* which method the caller invoked
    max_size_mb,        \* argument of search_papers_with_split
    pc,                 \* position of the single control thread
    exc,                \* exception in flight / raised to the caller
    now,                \* time.time()
    last_request_time,  \* self.last_request_time
    attempt,            \* loop variable of _make_request
    result,             \* value returned by _make_request
    params_token,       \* params.get("token")
    token, page,
    total_results, fetched_count, citations, output_files,
    current_file_index, current_file, current_file_size,
    paper_idx,          \* position of "for paper in papers"
    handles,            \* file objects created by open(), in creation order
    disk,               \* file name -> lines on disk
    fetchLog,           \* history: token sent by each logical fetch
    pageLog,            \* history: pages handed to the loop
    attemptLog,         \* history: HTTP attempts of the current logical fetch
    reqTimes,           \* history: number and start times of the HTTP requests
    failures            \* environment: failed HTTP attempts so far

vars == <<mode, max_size_mb, pc, exc, now, last_request_time, attempt, result,
          params_token, token, page, total_results, fetched_count, citations,
          output_files, current_file_index, current_file, current_file_size,
          paper_idx, handles, disk, fetchLog, pageLog, attemptLog, reqTimes,
          failures>>

fetcherVars == <<now, last_request_time, attempt, attemptLog, reqTimes, failures>>
loopVars    == <<params_token, token, page, total_results, fetched_count,
                 citations, paper_idx>>
fileVars    == <<output_files, current_file_index, current_file,
                 current_file_size, handles, disk>>
histVars    == <<fetchLog, pageLog>>
argVars     == <<mode, max_size_mb>>

(***************************************************************************)
(* Bounds of the exploration.                                              *)
(***************************************************************************)
MaxPages    == 3    \* the server's cursor chain has at most this many pages
MaxRecs     == 2    \* records per page
MaxRecords  == 3    \* records in the whole result set
MaxLineSize == 3    \* largest serialized line, in size units
MaxSizeMB   == 1    \* largest small max_size_mb argument tried
UnitsPerMB  == 2    \* size units per megabyte (1024 * 1024 bytes)
MaxFailures == 5    \* failed HTTP attempts (429 or exception) in one run
StartTime   == 100  \* time.time() when the run starts
NetLatency  == 1    \* duration of one HTTP exchange

(***************************************************************************)
(* Program constants.                                                      *)
(***************************************************************************)
rate_limit_delay == 11
max_retries      == 5
DefaultMaxSizeMB == 100

NoToken == 0        \* the page carries no "token" key (or None)
NoTotal == -1       \* the page carries no "total" key
Null    == -1       \* citationCount is null / absent
NoFile  == 0        \* current_file is None

Latencies      == {NetLatency}
LineSizes      == {1, MaxLineSize}

RECURSIVE Pow2(_)
Pow2(n) == IF n = 0 THEN 1 ELSE 2 * Pow2(n - 1)

\* number of records on the pages logged in s
RECURSIVE SumN(_)
SumN(s) == IF s = <<>> THEN 0 ELSE Head(s).n + SumN(Tail(s))

Min(a, b) == IF a < b THEN a ELSE b

(***************************************************************************)
(* The server.  Page k of the result carries a total (another one on every *)
(* page, only that of the first page is meaningful), up to MaxRecs         *)
(* records and either no cursor or the cursor k (opaque to the client).    *)
(* A record is identified by <<page, position>>; its citationCount is      *)
(* null or a number of its own (0 for the first record of the first page). *)
(***************************************************************************)
CitationOf(k, i) == 10 * (k - 1) + (i - 1)

RecordsOf(k, room) ==
    UNION { { [i \in 1..n |-> [id |-> <<k, i>>, size |-> f[i][1],
                               cc |-> IF f[i][2] THEN CitationOf(k, i) ELSE Null]] :
              f \in [1..n -> LineSizes \X BOOLEAN] } : n \in 0..Min(MaxRecs, room) }

NoneResult == [kind |-> "none", total |-> NoTotal, data |-> <<>>, token |-> NoToken]
EmptyBody  == [kind |-> "empty", total |-> NoTotal, data |-> <<>>, token |-> NoToken]

ServerPages(k, room) ==
    { [kind |-> "page", total |-> t, data |-> d, token |-> c] :
        t \in {10 + k}, d \in RecordsOf(k, room),
        c \in IF k < MaxPages THEN {NoToken, k} ELSE {NoToken} }

\* "not result": None and the empty JSON object are falsy
Falsy(r) == r.kind \in {"none", "empty"}

\* variant: every part after the first gets the same name
FileNameUnnumbered(i) == IF i = 1 THEN [stem |-> "base", part |-> 0]
                                  ELSE [stem |-> "base", part |-> 2]

\* file name of the part with index i (lines 206-209 and 248)
FileName(i) == IF i = 1 THEN [stem |-> "base", part |-> 0]
                        ELSE [stem |-> "base", part |-> i]

\* the handle the caller of search_papers_streaming passes in
CallerFile == [stem |-> "out", part |-> 0]

max_size_bytes == max_size_mb * UnitsPerMB

(***************************************************************************)
(* _wait_for_rate_limit: the time at which it returns when entered at t.   *)
(***************************************************************************)
\* variant: the limiter records the time but never sleeps
RateLimitedStartNoSleep(t) == t

RateLimitedStart(t) ==
    LET elapsed == t - last_request_time
    IN  IF elapsed < rate_limit_delay
        THEN t + (rate_limit_delay - elapsed)
        ELSE t

\* variant: the backoff grows linearly with the attempt
BackoffLinear(a) == (a + 1) * rate_limit_delay

\* wait_time of the exponential backoff at 0-indexed attempt a
Backoff(a) == Pow2(a) * rate_limit_delay

\* history of request start times after a request issued at start
Issued(start) ==
    [n     |-> reqTimes.n + 1,
     first |-> IF reqTimes.n = 0 THEN start ELSE reqTimes.first,
     prev  |-> reqTimes.last,
     last  |-> start]

\* where an exception leaves the method: the try/finally of the split
\* variant, straight to the caller in the streaming variant
RaiseTo == IF mode = "split" THEN "finally" ELSE "raised"
BreakTo == IF mode = "split" THEN "finally" ELSE "returned"

Init ==
    /\ mode \in {"split", "streaming"}
    /\ max_size_mb \in IF mode = "split" THEN 1..MaxSizeMB \cup {DefaultMaxSizeMB}
                                        ELSE {DefaultMaxSizeMB}
    /\ pc = "idle"
    /\ exc = "none"
    /\ now = StartTime
    /\ last_request_time = 0
    /\ attempt = 0
    /\ result = NoneResult
    /\ params_token = NoToken
    /\ token = NoToken
    /\ page = 1
    /\ total_results = 0
    /\ fetched_count = 0
    /\ citations = <<>>
    /\ output_files = <<>>
    /\ current_file_index = 1
    /\ current_file = NoFile
    /\ current_file_size = 0
    /\ paper_idx = 0
    /\ handles = IF mode = "streaming"
                 THEN <<[name |-> CallerFile, state |-> "open", closes |-> 0, closeCalls |-> 0]>>
                 ELSE <<>>
    /\ disk = IF mode = "streaming" THEN (CallerFile :> <<>>) ELSE <<>>
    /\ fetchLog = <<>>
    /\ pageLog = <<>>
    /\ attemptLog = <<>>
    /\ reqTimes = [n |-> 0, first |-> 0, prev |-> 0, last |-> 0]
    /\ failures = 0

(***************************************************************************)
(* File objects.                                                           *)
(***************************************************************************)
\* open(filename, "w"): a new open handle; the file is created or truncated
Opened(hs, name) ==
    Append(hs, [name |-> name, state |-> "open", closes |-> 0, closeCalls |-> 0])
Truncated(d, name) == [f \in DOMAIN d \cup {name} |-> IF f = name THEN <<>> ELSE d[f]]

\* file.close(): closes an open file, does nothing on a closed one
\* (closes counts the times the file went from open to closed, closeCalls
\* the calls of close() on the file object)
Closed(hs, h) ==
    [hs EXCEPT ![h].state = "closed",
               ![h].closes = IF hs[h].state = "open" THEN @ + 1 ELSE @,
               ![h].closeCalls = @ + 1]

\* file.write(line) through handle h
Written(d, hs, h, line) == [d EXCEPT ![hs[h].name] = Append(@, line)]

(***************************************************************************)
(* Entry of the two methods, up to the top of "while True".                *)
(***************************************************************************)
CallSplit ==
    /\ pc = "idle" /\ mode = "split"
    /\ handles' = Opened(handles, FileName(current_file_index))
    /\ disk' = Truncated(disk, FileName(current_file_index))
    /\ current_file' = Len(handles')
    /\ output_files' = Append(output_files, FileName(current_file_index))
    /\ pc' = "loop"
    /\ UNCHANGED <<argVars, exc, fetcherVars, result, loopVars, histVars,
                   current_file_index, current_file_size>>

\* the first open() raises: current_file is still None
CallSplitOpenFails ==
    /\ pc = "idle" /\ mode = "split"
    /\ exc' = "OSError"
    /\ pc' = "finally"
    /\ UNCHANGED <<argVars, fetcherVars, result, loopVars, histVars, fileVars>>

CallStreaming ==
    /\ pc = "idle" /\ mode = "streaming"
    /\ current_file' = 1
    /\ pc' = "loop"
    /\ UNCHANGED <<argVars, exc, fetcherVars, result, loopVars, histVars,
                   output_files, current_file_index, current_file_size,
                   handles, disk>>

(***************************************************************************)
(* Top of the loop: params["token"] = token, then _make_request(params).   *)
(***************************************************************************)
\* variant: the cursor of the page just read is never put into params
BeginFetchStaleToken ==
    /\ pc = "loop"
    /\ params_token' = params_token
    /\ fetchLog' = Append(fetchLog, params_token')
    /\ attempt' = 0
    /\ attemptLog' = <<>>
    /\ pc' = "request"
    /\ UNCHANGED <<argVars, exc, now, last_request_time, reqTimes, failures, result,
                   token, page, total_results, fetched_count, citations,
                   paper_idx, fileVars, pageLog>>

BeginFetch ==
    /\ pc = "loop"
    /\ params_token' = IF token # NoToken THEN token ELSE params_token
    /\ fetchLog' = Append(fetchLog, params_token')
    /\ attempt' = 0
    /\ attemptLog' = <<>>
    /\ pc' = "request"
    /\ UNCHANGED <<argVars, exc, now, last_request_time, reqTimes, failures, result,
                   token, page, total_results, fetched_count, citations,
                   paper_idx, fileVars, pageLog>>

(***************************************************************************)
(* One iteration of "for attempt in range(max_retries)".                   *)
(***************************************************************************)
\* 200: response.json() is returned
AttemptOk ==
    /\ pc = "request" /\ attempt < max_retries
    /\ \E lat \in Latencies,
          body \in ServerPages(page, MaxRecords - SumN(pageLog)) \cup {EmptyBody} :
         LET start == RateLimitedStart(now) IN
         /\ last_request_time' = start
         /\ now' = start + lat
         /\ reqTimes' = Issued(start)
         /\ attemptLog' = Append(attemptLog, [kind |-> "ok", start |-> start, wait |-> 0])
         /\ result' = body
    /\ pc' = "check"
    /\ UNCHANGED <<argVars, exc, attempt, failures, loopVars, fileVars, histVars>>

\* variant: a 429 does not use up an attempt
Attempt429Uncounted ==
    /\ pc = "request" /\ attempt < max_retries
    /\ failures < MaxFailures
    /\ failures' = failures + 1
    /\ \E lat \in Latencies :
         LET start == RateLimitedStart(now) IN
         /\ last_request_time' = start
         /\ now' = start + lat + Backoff(attempt)
         /\ reqTimes' = Issued(start)
         /\ attemptLog' = Append(attemptLog,
               [kind |-> "429", start |-> start, wait |-> Backoff(attempt)])
    /\ attempt' = attempt
    /\ UNCHANGED <<argVars, pc, exc, result, loopVars, fileVars, histVars>>

\* 429: sleep the backoff and continue; after the last attempt return None
Attempt429 ==
    /\ pc = "request" /\ attempt < max_retries
    /\ failures < MaxFailures
    /\ failures' = failures + 1
    /\ \E lat \in Latencies :
         LET start == RateLimitedStart(now) IN
         /\ last_request_time' = start
         /\ now' = start + lat + Backoff(attempt)
         /\ reqTimes' = Issued(start)
         /\ attemptLog' = Append(attemptLog,
               [kind |-> "429", start |-> start, wait |-> Backoff(attempt)])
    /\ attempt' = attempt + 1
    /\ IF attempt' < max_retries
       THEN pc' = "request" /\ result' = result
       ELSE pc' = "check" /\ result' = NoneResult
    /\ UNCHANGED <<argVars, exc, loopVars, fileVars, histVars>>

\* variant: every RequestException is followed by the same sleep
AttemptErrorRetryFlatWait ==
    /\ pc = "request" /\ attempt < max_retries
    /\ attempt < max_retries - 1
    /\ failures < MaxFailures
    /\ failures' = failures + 1
    /\ \E lat \in Latencies :
         LET start == RateLimitedStart(now) IN
         /\ last_request_time' = start
         /\ now' = start + lat + rate_limit_delay
         /\ reqTimes' = Issued(start)
         /\ attemptLog' = Append(attemptLog,
               [kind |-> "exception", start |-> start, wait |-> rate_limit_delay])
    /\ attempt' = attempt + 1
    /\ UNCHANGED <<argVars, pc, exc, result, loopVars, fileVars, histVars>>

\* variant: a RequestException does not use up an attempt
AttemptErrorRetryUncounted ==
    /\ pc = "request" /\ attempt < max_retries
    /\ attempt < max_retries - 1
    /\ failures < MaxFailures
    /\ failures' = failures + 1
    /\ \E lat \in Latencies :
         LET start == RateLimitedStart(now) IN
         /\ last_request_time' = start
         /\ now' = start + lat + Backoff(attempt)
         /\ reqTimes' = Issued(start)
         /\ attemptLog' = Append(attemptLog,
               [kind |-> "exception", start |-> start, wait |-> Backoff(attempt)])
    /\ attempt' = attempt
    /\ UNCHANGED <<argVars, pc, exc, result, loopVars, fileVars, histVars>>

\* session.get (ConnectionError, Timeout), raise_for_status (HTTPError) or
\* response.json (JSONDecodeError) raises a RequestException on an attempt
\* that is not the last: sleep the backoff and go on
AttemptErrorRetry ==
    /\ pc = "request" /\ attempt < max_retries
    /\ attempt < max_retries - 1
    /\ failures < MaxFailures
    /\ failures' = failures + 1
    /\ \E lat \in Latencies :
         LET start == RateLimitedStart(now) IN
         /\ last_request_time' = start
         /\ now' = start + lat + Backoff(attempt)
         /\ reqTimes' = Issued(start)
         /\ attemptLog' = Append(attemptLog,
               [kind |-> "exception", start |-> start, wait |-> Backoff(attempt)])
    /\ attempt' = attempt + 1
    /\ UNCHANGED <<argVars, pc, exc, result, loopVars, fileVars, histVars>>

\* variant: the exception of the last attempt is swallowed, None is returned
AttemptErrorSwallowed ==
    /\ pc = "request" /\ attempt < max_retries
    /\ ~(attempt < max_retries - 1)
    /\ failures < MaxFailures
    /\ failures' = failures + 1
    /\ \E lat \in Latencies :
         LET start == RateLimitedStart(now) IN
         /\ last_request_time' = start
         /\ now' = start + lat
         /\ reqTimes' = Issued(start)
         /\ attemptLog' = Append(attemptLog,
               [kind |-> "exception", start |-> start, wait |-> 0])
    /\ result' = NoneResult
    /\ pc' = "check"
    /\ UNCHANGED <<argVars, exc, attempt, loopVars, fileVars, histVars>>

\* the same on the last attempt: re-raise
AttemptErrorRaise ==
    /\ pc = "request" /\ attempt < max_retries
    /\ ~(attempt < max_retries - 1)
    /\ failures < MaxFailures
    /\ failures' = failures + 1
    /\ \E lat \in Latencies :
         LET start == RateLimitedStart(now) IN
         /\ last_request_time' = start
         /\ now' = start + lat
         /\ reqTimes' = Issued(start)
         /\ attemptLog' = Append(attemptLog, [kind |-> "exception", start |-> start, wait |-> 0])
    /\ exc' = "RequestException"
    /\ pc' = RaiseTo
    /\ UNCHANGED <<argVars, attempt, result, loopVars, fileVars, histVars>>

(***************************************************************************)
(* Back in the loop with the value of _make_request: "if not result:       *)
(* break", the total of the first page, papers = result.get("data", []).   *)
(***************************************************************************)
\* variant: an empty result skips the page instead of leaving the loop
CheckResultContinues ==
    /\ pc = "check"
    /\ IF Falsy(result)
       THEN /\ pc' = "loop"
            /\ UNCHANGED <<total_results, paper_idx, pageLog, attemptLog>>
       ELSE /\ total_results' = IF page = 1
                                 THEN (IF result.total = NoTotal THEN 0 ELSE result.total)
                                 ELSE total_results
            /\ paper_idx' = 1
            /\ pageLog' = Append(pageLog, [token |-> result.token, n |-> Len(result.data),
                                       total |-> result.total, data |-> result.data])
            /\ attemptLog' = <<>>
            /\ pc' = "papers"
    /\ UNCHANGED <<argVars, exc, now, last_request_time, attempt, reqTimes, failures,
                   result, params_token, token, page, fetched_count, citations,
                   fileVars, fetchLog>>

CheckResult ==
    /\ pc = "check"
    /\ IF Falsy(result)
       THEN /\ pc' = BreakTo
            /\ UNCHANGED <<total_results, paper_idx, pageLog, attemptLog>>
       ELSE /\ total_results' = IF page = 1
                                 THEN (IF result.total = NoTotal THEN 0 ELSE result.total)
                                 ELSE total_results
            /\ paper_idx' = 1
            /\ pageLog' = Append(pageLog, [token |-> result.token, n |-> Len(result.data),
                                       total |-> result.total, data |-> result.data])
            /\ attemptLog' = <<>>
            /\ pc' = "papers"
    /\ UNCHANGED <<argVars, exc, now, last_request_time, attempt, reqTimes, failures,
                   result, params_token, token, page, fetched_count, citations,
                   fileVars, fetchLog>>

(***************************************************************************)
(* One iteration of "for paper in papers", size-bounded variant.           *)
(***************************************************************************)
paper     == result.data[paper_idx]
line_size == paper.size

\* variant: the size check looks at the file only, not at the line to come
RolloverIgnoresLine == current_file_size > max_size_bytes /\ fetched_count > 0

\* variant: the very first record may roll over too
RolloverUnguarded == current_file_size + line_size > max_size_bytes

\* variant: the first two records are exempt from the rollover
RolloverOffByOne == current_file_size + line_size > max_size_bytes /\ fetched_count > 1

Rollover  == current_file_size + line_size > max_size_bytes /\ fetched_count > 0

\* variant: the citation count is tested for truth, not for None
CitedIfTruthy(cs, p) == IF p.cc # Null /\ p.cc # 0 THEN Append(cs, p.cc) ELSE cs

Cited(cs, p) == IF p.cc # Null THEN Append(cs, p.cc) ELSE cs

\* variant: the rollover opens the new file without closing the old one
RolledHandlesKeepsOldOpen == Opened(handles, FileName(current_file_index + 1))

\* the handles and the disk after the rollover's close() and open()
RolledHandles == Opened(Closed(handles, current_file), FileName(current_file_index + 1))
RolledDisk    == Truncated(disk, FileName(current_file_index + 1))

\* variant: the line that triggers a rollover is counted but not written
WriteRecordSkipsRolloverLine ==
    /\ pc = "papers" /\ mode = "split" /\ paper_idx <= Len(result.data)
    /\ IF Rollover
       THEN /\ current_file_index' = current_file_index + 1
            /\ handles' = RolledHandles
            /\ current_file' = Len(handles')
            /\ output_files' = Append(output_files, FileName(current_file_index'))
            /\ disk' = RolledDisk
            /\ current_file_size' = 0
       ELSE /\ disk' = Written(disk, handles, current_file, paper)
            /\ current_file_size' = current_file_size + line_size
            /\ UNCHANGED <<current_file_index, handles, current_file, output_files>>
    /\ fetched_count' = fetched_count + 1
    /\ citations' = Cited(citations, paper)
    /\ paper_idx' = paper_idx + 1
    /\ UNCHANGED <<argVars, pc, exc, fetcherVars, result, params_token, token,
                   page, total_results, histVars>>

\* variant: fetched_count is advanced by the line size, not by one
WriteRecordCountsBytes ==
    /\ pc = "papers" /\ mode = "split" /\ paper_idx <= Len(result.data)
    /\ IF Rollover
       THEN /\ current_file_index' = current_file_index + 1
            /\ handles' = RolledHandles
            /\ current_file' = Len(handles')
            /\ output_files' = Append(output_files, FileName(current_file_index'))
            /\ disk' = Written(RolledDisk, handles', current_file', paper)
            /\ current_file_size' = 0 + line_size
       ELSE /\ disk' = Written(disk, handles, current_file, paper)
            /\ current_file_size' = current_file_size + line_size
            /\ UNCHANGED <<current_file_index, handles, current_file, output_files>>
    /\ fetched_count' = fetched_count + line_size
    /\ citations' = Cited(citations, paper)
    /\ paper_idx' = paper_idx + 1
    /\ UNCHANGED <<argVars, pc, exc, fetcherVars, result, params_token, token,
                   page, total_results, histVars>>

\* variant: current_file_size is set at a rollover but never advanced
WriteRecordSizeNotAdvanced ==
    /\ pc = "papers" /\ mode = "split" /\ paper_idx <= Len(result.data)
    /\ IF Rollover
       THEN /\ current_file_index' = current_file_index + 1
            /\ handles' = RolledHandles
            /\ current_file' = Len(handles')
            /\ output_files' = Append(output_files, FileName(current_file_index'))
            /\ disk' = Written(RolledDisk, handles', current_file', paper)
            /\ current_file_size' = 0 + line_size
       ELSE /\ disk' = Written(disk, handles, current_file, paper)
            /\ current_file_size' = current_file_size
            /\ UNCHANGED <<current_file_index, handles, current_file, output_files>>
    /\ fetched_count' = fetched_count + 1
    /\ citations' = Cited(citations, paper)
    /\ paper_idx' = paper_idx + 1
    /\ UNCHANGED <<argVars, pc, exc, fetcherVars, result, params_token, token,
                   page, total_results, histVars>>

WriteRecord ==
    /\ pc = "papers" /\ mode = "split" /\ paper_idx <= Len(result.data)
    /\ IF Rollover
       THEN /\ current_file_index' = current_file_index + 1
            /\ handles' = RolledHandles
            /\ current_file' = Len(handles')
            /\ output_files' = Append(output_files, FileName(current_file_index'))
            /\ disk' = Written(RolledDisk, handles', current_file', paper)
            /\ current_file_size' = 0 + line_size
       ELSE /\ disk' = Written(disk, handles, current_file, paper)
            /\ current_file_size' = current_file_size + line_size
            /\ UNCHANGED <<current_file_index, handles, current_file, output_files>>
    /\ fetched_count' = fetched_count + 1
    /\ citations' = Cited(citations, paper)
    /\ paper_idx' = paper_idx + 1
    /\ UNCHANGED <<argVars, pc, exc, fetcherVars, result, params_token, token,
                   page, total_results, histVars>>

\* current_file.close() of the rollover raises; the file object is closed
\* all the same and current_file still refers to it
RolloverCloseFails ==
    /\ pc = "papers" /\ mode = "split" /\ paper_idx <= Len(result.data)
    /\ Rollover
    /\ handles' = Closed(handles, current_file)
    /\ exc' = "OSError"
    /\ pc' = "finally"
    /\ UNCHANGED <<argVars, fetcherVars, result, loopVars, histVars, output_files,
                   current_file_index, current_file, current_file_size, disk>>

\* open() of the rollover raises: current_file is still the closed old file
RolloverOpenFails ==
    /\ pc = "papers" /\ mode = "split" /\ paper_idx <= Len(result.data)
    /\ Rollover
    /\ handles' = Closed(handles, current_file)
    /\ current_file_index' = current_file_index + 1
    /\ exc' = "OSError"
    /\ pc' = "finally"
    /\ UNCHANGED <<argVars, fetcherVars, result, loopVars, histVars, output_files,
                   current_file, current_file_size, disk>>

\* variant: a failed write removes the file it was writing to
WriteFailsRemovesFile ==
    /\ pc = "papers" /\ mode = "split" /\ paper_idx <= Len(result.data)
    /\ IF Rollover
       THEN /\ current_file_index' = current_file_index + 1
            /\ handles' = RolledHandles
            /\ current_file' = Len(handles')
            /\ output_files' = Append(output_files, FileName(current_file_index'))
            /\ disk' = disk
            /\ current_file_size' = 0
       ELSE /\ disk' = [f \in DOMAIN disk \ {handles[current_file].name} |-> disk[f]]
            /\ UNCHANGED <<output_files, current_file_index, current_file,
                           current_file_size, handles>>
    /\ exc' = "OSError"
    /\ pc' = "finally"
    /\ UNCHANGED <<argVars, fetcherVars, result, loopVars, histVars>>

\* current_file.write(json_line) raises, after the rollover if there was one
WriteFails ==
    /\ pc = "papers" /\ mode = "split" /\ paper_idx <= Len(result.data)
    /\ IF Rollover
       THEN /\ current_file_index' = current_file_index + 1
            /\ handles' = RolledHandles
            /\ current_file' = Len(handles')
            /\ output_files' = Append(output_files, FileName(current_file_index'))
            /\ disk' = RolledDisk
            /\ current_file_size' = 0
       ELSE UNCHANGED fileVars
    /\ exc' = "OSError"
    /\ pc' = "finally"
    /\ UNCHANGED <<argVars, fetcherVars, result, loopVars, histVars>>

(***************************************************************************)
(* One iteration of "for paper in papers", single-file variant.            *)
(***************************************************************************)
\* variant: the single-file writer tests the citation count for truth
StreamRecordTruthyCitations ==
    /\ pc = "papers" /\ mode = "streaming" /\ paper_idx <= Len(result.data)
    /\ disk' = Written(disk, handles, current_file, paper)
    /\ fetched_count' = fetched_count + 1
    /\ citations' = CitedIfTruthy(citations, paper)
    /\ paper_idx' = paper_idx + 1
    /\ UNCHANGED <<argVars, pc, exc, fetcherVars, result, params_token, token,
                   page, total_results, histVars, output_files, current_file_index,
                   current_file, current_file_size, handles>>

StreamRecord ==
    /\ pc = "papers" /\ mode = "streaming" /\ paper_idx <= Len(result.data)
    /\ disk' = Written(disk, handles, current_file, paper)
    /\ fetched_count' = fetched_count + 1
    /\ citations' = Cited(citations, paper)
    /\ paper_idx' = paper_idx + 1
    /\ UNCHANGED <<argVars, pc, exc, fetcherVars, result, params_token, token,
                   page, total_results, histVars, output_files, current_file_index,
                   current_file, current_file_size, handles>>

\* json.dump or output_file.write raises: no try block, straight to the caller
StreamWriteFails ==
    /\ pc = "papers" /\ mode = "streaming" /\ paper_idx <= Len(result.data)
    /\ exc' = "OSError"
    /\ pc' = "raised"
    /\ UNCHANGED <<argVars, fetcherVars, result, loopVars, histVars, fileVars>>

(***************************************************************************)
(* After the last paper: token = result.get("token"); break or page += 1.  *)
(***************************************************************************)
EndPage ==
    /\ pc = "papers" /\ paper_idx > Len(result.data)
    /\ token' = result.token
    /\ IF token' = NoToken
       THEN pc' = BreakTo /\ page' = page
       ELSE pc' = "loop" /\ page' = page + 1
    /\ UNCHANGED <<argVars, exc, fetcherVars, result, params_token, total_results,
                   fetched_count, citations, paper_idx, fileVars, histVars>>

(***************************************************************************)
(* The finally block of search_papers_with_split, then return or re-raise. *)
(***************************************************************************)
\* variant: the finally block does not close the file
FinallyNoClose ==
    /\ pc = "finally"
    /\ handles' = handles
    /\ pc' = IF exc = "none" THEN "returned" ELSE "raised"
    /\ UNCHANGED <<argVars, exc, fetcherVars, result, loopVars, histVars, output_files,
                   current_file_index, current_file, current_file_size, disk>>

Finally ==
    /\ pc = "finally"
    /\ handles' = IF current_file # NoFile THEN Closed(handles, current_file) ELSE handles
    /\ pc' = IF exc = "none" THEN "returned" ELSE "raised"
    /\ UNCHANGED <<argVars, exc, fetcherVars, result, loopVars, histVars, output_files,
                   current_file_index, current_file, current_file_size, disk>>

\* close() in the finally block raises on a file that was still open
FinallyCloseFails ==
    /\ pc = "finally"
    /\ current_file # NoFile
    /\ handles[current_file].state = "open"
    /\ handles' = Closed(handles, current_file)
    /\ exc' = "OSError"
    /\ pc' = "raised"
    /\ UNCHANGED <<argVars, fetcherVars, result, loopVars, histVars, output_files,
                   current_file_index, current_file, current_file_size, disk>>

Next ==
    \/ CallSplit
    \/ CallSplitOpenFails
    \/ CallStreaming
    \/ BeginFetch
    \/ AttemptOk
    \/ Attempt429
    \/ AttemptErrorRetry
    \/ AttemptErrorRaise
    \/ CheckResult
    \/ WriteRecord
    \/ RolloverCloseFails
    \/ RolloverOpenFails
    \/ WriteFails
    \/ StreamRecord
    \/ StreamWriteFails
    \/ EndPage
    \/ Finally
    \/ FinallyCloseFails

Spec == Init /\ [][Next]_vars

\* The run is one sequential thread and each of its steps ends: the sleeps
\* are finite, session.get carries timeout=30, file operations return or
\* raise.  So a step that can be taken is eventually taken.
SpecLive == Spec /\ WF_vars(Next)

(***************************************************************************)
(* Vocabulary of the properties.                                           *)
(***************************************************************************)
Terminated == pc \in {"returned", "raised"}

\* number of lines of the sequence ls that hold the record id
RECURSIVE CountId(_, _)
CountId(ls, id) ==
    IF ls = <<>> THEN 0
    ELSE (IF Head(ls).id = id THEN 1 ELSE 0) + CountId(Tail(ls), id)

\* number of lines on disk, over all files, that hold the record id
RECURSIVE OccIn(_, _)
OccIn(names, id) ==
    IF names = {} THEN 0
    ELSE LET f == CHOOSE x \in names : TRUE
         IN  CountId(disk[f], id) + OccIn(names \ {f}, id)
Occurrences(id) == OccIn(DOMAIN disk, id)

\* number of lines on disk, over all files
RECURSIVE LinesIn(_)
LinesIn(names) ==
    IF names = {} THEN 0
    ELSE LET f == CHOOSE x \in names : TRUE
         IN  Len(disk[f]) + LinesIn(names \ {f})
LinesOnDisk == LinesIn(DOMAIN disk)

\* the records of the pages handed to the loop so far
ReceivedIds == UNION { { <<k, i>> : i \in 1..pageLog[k].n } : k \in 1..Len(pageLog) }

\* the loop is between two pages: a fetch is about to be issued or under
\* way, or the run has left the loop without an exception
BetweenPages == pc \in {"loop", "request", "check", "returned"}
                \/ (pc = "finally" /\ exc = "none")

\* every attempt of the current logical fetch has been made and none succeeded
Exhausted == /\ Len(attemptLog) = max_retries
             /\ \A a \in 1..Len(attemptLog) : attemptLog[a].kind # "ok"
LastKind == attemptLog[Len(attemptLog)].kind

\* C1: every record of a page handed to the loop is on disk exactly once
\* (in one file, on one line) whenever the fetch for the next page is issued
\* or the run returns, and no record is ever on disk twice.
C1_EveryRecordWrittenOnce ==
    /\ \A id \in ReceivedIds : Occurrences(id) <= 1
    /\ BetweenPages => \A id \in ReceivedIds : Occurrences(id) = 1

C1_Witness ==
    /\ pc = "request" /\ Len(pageLog) = 2
    /\ pageLog[1].n = 2 /\ pageLog[2].n = 1
    /\ Cardinality(DOMAIN disk) >= 2

\* C2: when the run returns, the number of lines written over all output
\* files equals the fetched_count it returns.
C2_LinesEqualFetchedCount ==
    pc = "returned" => LinesOnDisk = fetched_count

C2_Witness ==
    pc = "returned" /\ fetched_count = 3 /\ Len(output_files) >= 2

\* C3: the first logical fetch carries no cursor, every later one carries
\* the cursor of the page before it, no cursor is fetched twice, and after a
\* page without cursor no fetch is issued.
C3_OneFetchPerCursor ==
    /\ Len(fetchLog) <= Len(pageLog) + 1
    /\ \A i \in 1..Len(fetchLog) :
         IF i = 1 THEN fetchLog[i] = NoToken
         ELSE fetchLog[i] # NoToken /\ fetchLog[i] = pageLog[i - 1].token
    /\ \A i, j \in 1..Len(fetchLog) : i # j => fetchLog[i] # fetchLog[j]
    /\ \A i \in 1..Len(pageLog) :
         pageLog[i].token = NoToken => (Len(fetchLog) = i /\ pc # "loop")

C3_Witness ==
    pc = "returned" /\ Len(fetchLog) = 3 /\ Len(pageLog) = 3

\* C4 as stated: whenever every attempt of a logical fetch has failed, the
\* fetch yields "no page" and nothing is raised.
C4_ExhaustionNeverRaises ==
    Exhausted => exc = "none" /\ result.kind = "none"

\* C4: when every attempt of a logical fetch has failed and the last one
\* was answered 429, the fetch yields "no page" and raises nothing; when the
\* last one failed with a RequestException, that exception is raised.
C4_ExhaustionByLastFailure ==
    Exhausted =>
        IF LastKind = "429"
        THEN result.kind = "none" /\ (pc \in {"check", "finally"} => exc = "none")
        ELSE /\ exc # "none"
             /\ pc \in {"finally", "raised"}
             /\ (pc = "finally" \/ mode = "streaming") => exc = "RequestException"

C4_Witness ==
    /\ Exhausted /\ LastKind = "429" /\ attemptLog[1].kind = "exception"
    /\ pc = "check" /\ result.kind = "none" /\ exc = "none"

\* C5 as stated: once every attempt of a logical fetch has failed, a run that
\* ends without a file error ends by returning statistics that count the
\* records fetched before the failure.
C5_ExhaustionAlwaysReturns ==
    (Exhausted /\ Terminated /\ exc # "OSError") =>
        pc = "returned" /\ fetched_count = SumN(pageLog)

\* C5: once every attempt of a logical fetch has failed, that fetch stays
\* the last one and no further page is processed; the records counted and
\* written are those of the pages before it; the run then returns these
\* statistics if the last attempt was answered 429 (and closing the file
\* does not fail), and raises if the last attempt raised.
C5_ExhaustionStopsTheLoop ==
    Exhausted =>
        /\ pc \in {"check", "finally", "returned", "raised"}
        /\ Len(fetchLog) = Len(pageLog) + 1
        /\ fetched_count = SumN(pageLog)
        /\ LinesOnDisk = SumN(pageLog)
        /\ (Terminated /\ LastKind = "429" /\ exc = "none") => pc = "returned"
        /\ (Terminated /\ LastKind = "exception") => pc = "raised"

C5_Witness ==
    /\ Exhausted /\ LastKind = "429" /\ pc = "returned"
    /\ Len(pageLog) = 1 /\ fetched_count = 2

\* C6: a RequestException on an attempt that is not the last is followed by
\* a sleep of 2^attempt * rate_limit_delay and another attempt; on the last
\* attempt it is raised and no attempt follows.
C6_ExceptionBackoffThenRaise ==
    \A a \in 1..Len(attemptLog) :
        attemptLog[a].kind = "exception" =>
            IF a < max_retries
            THEN /\ attemptLog[a].wait = Pow2(a - 1) * rate_limit_delay
                 /\ a < Len(attemptLog) =>
                        attemptLog[a + 1].start >=
                            attemptLog[a].start + Pow2(a - 1) * rate_limit_delay
                 /\ a = Len(attemptLog) =>
                        /\ pc = "request" /\ exc = "none" /\ attempt = a
                        /\ now >= attemptLog[a].start + Pow2(a - 1) * rate_limit_delay
            ELSE /\ a = Len(attemptLog)
                 /\ attemptLog[a].wait = 0
                 /\ exc # "none"
                 /\ pc \in {"finally", "raised"}

C6_Witness ==
    /\ Exhausted
    /\ \A a \in 1..Len(attemptLog) : attemptLog[a].kind = "exception"
    /\ pc = "raised" /\ exc = "RequestException"

\* C7: one logical fetch issues at most max_retries HTTP requests, whatever
\* the server answers, and no request follows a success.
C7_AtMostMaxRetriesRequests ==
    /\ Len(attemptLog) <= max_retries
    /\ reqTimes.n <= max_retries * Len(fetchLog)
    /\ \A a \in 1..Len(attemptLog) :
         attemptLog[a].kind = "ok" => (a = Len(attemptLog) /\ pc # "request")

C7_Witness ==
    /\ pc = "check" /\ Len(attemptLog) = max_retries /\ LastKind = "ok"
    /\ attemptLog[1].kind = "429" /\ attemptLog[2].kind = "exception"

\* C8: a 429 at 0-indexed attempt a is followed by a sleep of
\* 2^a * rate_limit_delay and uses up attempt a; so a success after k 429s
\* is the (k+1)-th request of the fetch and returns the page.
C8_RateLimitedBackoff ==
    /\ pc = "request" => attempt = Len(attemptLog)
    /\ \A a \in 1..Len(attemptLog) :
         attemptLog[a].kind = "429" =>
            /\ attemptLog[a].wait = Pow2(a - 1) * rate_limit_delay
            /\ a < Len(attemptLog) =>
                   attemptLog[a + 1].start >=
                       attemptLog[a].start + Pow2(a - 1) * rate_limit_delay
    /\ (pc = "check" /\ attemptLog # <<>> /\ LastKind = "ok") =>
            /\ result.kind # "none"
            /\ attempt = Len(attemptLog) - 1

C8_Witness ==
    /\ pc = "check" /\ Len(attemptLog) = 3
    /\ attemptLog[1].kind = "429" /\ attemptLog[2].kind = "429"
    /\ attemptLog[3].kind = "ok" /\ result.kind = "page"
    /\ attemptLog[1].wait = rate_limit_delay
    /\ attemptLog[2].wait = 2 * rate_limit_delay

\* C9: two consecutive HTTP requests of the run start at least
\* rate_limit_delay apart, and after N requests at least
\* (N - 1) * rate_limit_delay has passed since the first one started.
C9_RequestsSpacedByDelay ==
    /\ reqTimes.n >= 2 => reqTimes.last - reqTimes.prev >= rate_limit_delay
    /\ reqTimes.n >= 1 => now - reqTimes.first >= (reqTimes.n - 1) * rate_limit_delay

\* the second fetch follows a fast success: the rate limiter had to sleep
C9_Witness ==
    /\ reqTimes.n = 3 /\ Len(fetchLog) = 3
    /\ reqTimes.last - reqTimes.prev = rate_limit_delay

\* C10: when search_papers_with_split hands control back, by return or by
\* exception, every file it opened is closed and went from open to closed
\* exactly once.
C10_FilesClosedOnExit ==
    (mode = "split" /\ Terminated) =>
        \A h \in 1..Len(handles) :
            handles[h].state = "closed" /\ handles[h].closes = 1

C10_Witness ==
    /\ mode = "split" /\ pc = "raised" /\ exc = "OSError"
    /\ Len(handles) = 2 /\ current_file = 2

\* accumulated size of the lines ls
RECURSIVE SizeOf(_)
SizeOf(ls) == IF ls = <<>> THEN 0 ELSE Head(ls).size + SizeOf(Tail(ls))

\* the lines of the file behind handle h
LinesOf(h) == disk[handles[h].name]

\* C11: a completed output file other than the first (a file opened by a
\* rollover and closed since) is larger than the threshold by at most the
\* size of the record that triggered the rollover, its first line.
C11_OvershootAtMostTrigger ==
    mode = "split" =>
        \A h \in 2..Len(handles) :
            handles[h].state = "closed" =>
                SizeOf(LinesOf(h)) <=
                    max_size_mb * UnitsPerMB
                    + (IF LinesOf(h) = <<>> THEN 0 ELSE Head(LinesOf(h)).size)

C11_Witness ==
    /\ mode = "split" /\ pc = "returned" /\ Len(handles) = 3
    /\ handles[2].state = "closed"
    /\ SizeOf(LinesOf(2)) > max_size_mb * UnitsPerMB
    /\ Len(LinesOf(1)) = 1 /\ Len(LinesOf(3)) = 1

\* C12 as stated: when a size-bounded run returns, none of the files it
\* created is empty.
C12_NoFileEmpty ==
    (mode = "split" /\ pc = "returned") =>
        \A f \in DOMAIN disk : disk[f] # <<>>

\* C12: in a size-bounded run that has written at least one record and in
\* which no file operation has failed, no output file is empty; a run that
\* returns without having fetched a record leaves its one file empty.
C12_NoFileEmptyOnceWritten ==
    mode = "split" =>
        /\ (fetched_count >= 1 /\ exc # "OSError") =>
                \A f \in DOMAIN disk : disk[f] # <<>>
        /\ (pc = "returned" /\ fetched_count = 0) =>
                /\ Len(output_files) = 1
                /\ \A f \in DOMAIN disk : disk[f] = <<>>

C12_Witness ==
    /\ mode = "split" /\ pc = "returned" /\ fetched_count = 3
    /\ Len(output_files) = 3
    /\ SizeOf(LinesOf(1)) > max_size_mb * UnitsPerMB

\* the records of the pages handed to the loop so far, in fetch order
RECURSIVE DataOf(_)
DataOf(pages) == IF pages = <<>> THEN <<>> ELSE Head(pages).data \o DataOf(Tail(pages))
Received == DataOf(pageLog)

\* C13: when the line of every record fetched is larger than the threshold,
\* a size-bounded run that returns with n >= 1 records has created exactly n
\* files and every one of them holds exactly one record.
C13_OneFilePerOversizeRecord ==
    ( /\ mode = "split" /\ pc = "returned" /\ fetched_count >= 1
      /\ \A j \in 1..Len(Received) : Received[j].size > max_size_mb * UnitsPerMB ) =>
        /\ Len(output_files) = fetched_count
        /\ Cardinality(DOMAIN disk) = fetched_count
        /\ \A f \in DOMAIN disk : Len(disk[f]) = 1

C13_Witness ==
    /\ mode = "split" /\ pc = "returned" /\ fetched_count = 3
    /\ \A j \in 1..Len(Received) : Received[j].size > max_size_mb * UnitsPerMB
    /\ Len(Received) = 3 /\ Len(output_files) = 3

\* C14: in a size-bounded run the k-th file created is base.jsonl for k = 1
\* and base_part{k}.jsonl for k >= 2, output_files lists these names in
\* creation order without repetition, and no step of the run shortens a
\* file written earlier.
C14_FileNamesInOrder ==
    [][ mode = "split" =>
          /\ Len(handles') = Len(output_files')
          /\ \A k \in 1..Len(output_files') :
                /\ output_files'[k] = [stem |-> "base", part |-> IF k = 1 THEN 0 ELSE k]
                /\ handles'[k].name = output_files'[k]
          /\ \A j, k \in 1..Len(output_files') :
                j # k => output_files'[j] # output_files'[k]
          /\ \A f \in DOMAIN disk :
                f \in DOMAIN disk' /\ Len(disk'[f]) >= Len(disk[f]) ]_vars

C14_Witness ==
    /\ mode = "split" /\ pc = "returned"
    /\ output_files = << [stem |-> "base", part |-> 0],
                         [stem |-> "base", part |-> 2],
                         [stem |-> "base", part |-> 3] >>
    /\ \A k \in 1..3 : Len(LinesOf(k)) = 1

\* the citationCount values of the records rs that are not null, in order
RECURSIVE NonNullCitations(_)
NonNullCitations(rs) ==
    IF rs = <<>> THEN <<>>
    ELSE (IF Head(rs).cc # Null THEN <<Head(rs).cc>> ELSE <<>>)
         \o NonNullCitations(Tail(rs))

\* C15: when a run returns, citations holds, in fetch order, exactly the
\* citationCount values of the fetched records that are not null, so it is
\* never longer than fetched_count.
C15_CitationsOfFetchedRecords ==
    pc = "returned" =>
        /\ fetched_count = Len(Received)
        /\ citations = NonNullCitations(Received)
        /\ Len(citations) <= fetched_count

C15_Witness ==
    /\ pc = "returned" /\ fetched_count = 3 /\ Len(pageLog) = 2
    /\ citations = <<0, 10>>

\* the total of the first page handed to the loop (0 when there is none)
FirstTotal ==
    IF pageLog = <<>> \/ pageLog[1].total = NoTotal THEN 0 ELSE pageLog[1].total

\* the threshold is never reached: all the records fetched fit into one file
NeverReached == SizeOf(Received) <= max_size_mb * UnitsPerMB

\* C16: a run of search_papers_streaming, and a run of
\* search_papers_with_split whose threshold is never reached, return the
\* same function of the server's responses: one file holding the records
\* received, in order, the total of the first page, the number of records
\* and their non-null citation counts.
C16_SplitSubsumesStreaming ==
    (pc = "returned" /\ (mode = "streaming" \/ NeverReached)) =>
        /\ Cardinality(DOMAIN disk) = 1
        /\ \A f \in DOMAIN disk : disk[f] = Received
        /\ mode = "split" => output_files = <<[stem |-> "base", part |-> 0]>>
        /\ total_results = FirstTotal
        /\ fetched_count = Len(Received)
        /\ citations = NonNullCitations(Received)

C16_Witness ==
    /\ mode = "split" /\ max_size_mb = DefaultMaxSizeMB /\ pc = "returned"
    /\ Len(pageLog) = 2 /\ Len(Received) = 3 /\ total_results = 11
    /\ \E j \in 1..3 : Received[j].cc = Null

\* every file on disk before the step is still there after it, with at
\* least the lines it had
OutputKept ==
    \A f \in DOMAIN disk :
        /\ f \in DOMAIN disk'
        /\ Len(disk'[f]) >= Len(disk[f])
        /\ SubSeq(disk'[f], 1, Len(disk[f])) = disk[f]

\* C17: a step in which a file operation raises OSError takes the run out
\* of the loop towards the caller and keeps the output written so far; from
\* then on nothing is written or retried, no file is removed, and the run
\* ends by raising, never by returning.
C17_FileErrorIsFatal ==
    [][ /\ exc' = "OSError" =>
             /\ pc' \in {"finally", "raised"}
             /\ OutputKept
        /\ exc = "OSError" =>
             /\ exc' = "OSError"
             /\ pc' = "raised"
             /\ disk' = disk
             /\ fetched_count' = fetched_count
             /\ fetchLog' = fetchLog ]_vars

\* a write failed in the second file after two records were written
C17_Witness ==
    /\ mode = "split" /\ pc = "raised" /\ exc = "OSError"
    /\ Len(handles) = 2 /\ fetched_count = 2
    /\ Len(LinesOf(1)) = 1 /\ Len(LinesOf(2)) = 1
    /\ paper_idx <= Len(result.data)

\* the handles of hs that are open
OpenHandles(hs) == { h \in 1..Len(hs) : hs[h].state = "open" }

\* C18: after every step of a size-bounded run at most one file is open and
\* it is the one opened last; a step that adds lines to a file adds them to
\* that file; and a closed file stays closed and keeps its lines.
C18_SingleOpenFile ==
    [][ mode = "split" =>
          /\ Cardinality(OpenHandles(handles')) <= 1
          /\ \A h \in OpenHandles(handles') : h = Len(handles')
          /\ \A f \in DOMAIN disk' :
                (disk'[f] # <<>> /\ (f \notin DOMAIN disk \/ disk'[f] # disk[f])) =>
                    /\ handles' # <<>>
                    /\ handles'[Len(handles')].name = f
                    /\ handles'[Len(handles')].state = "open"
          /\ \A h \in 1..Len(handles) :
                handles[h].state = "closed" =>
                    /\ handles'[h].state = "closed"
                    /\ disk'[handles[h].name] = disk[handles[h].name] ]_vars

C18_Witness ==
    /\ mode = "split" /\ pc = "papers" /\ Len(handles) = 3
    /\ OpenHandles(handles) = {3}
    /\ Len(LinesOf(3)) = 1 /\ Len(LinesOf(2)) = 1

\* C19: in a size-bounded run every file larger than the threshold, the
\* first one included, holds exactly one record, so that record's line is
\* itself larger than the threshold; a file of two or more records is
\* within the threshold.
C19_OversizeFileHoldsOneRecord ==
    mode = "split" =>
        \A f \in DOMAIN disk :
            SizeOf(disk[f]) > max_size_mb * UnitsPerMB =>
                /\ Len(disk[f]) = 1
                /\ disk[f][1].size > max_size_mb * UnitsPerMB

C19_Witness ==
    /\ mode = "split" /\ pc = "returned" /\ Len(handles) = 2
    /\ Len(LinesOf(1)) = 1 /\ SizeOf(LinesOf(1)) > max_size_mb * UnitsPerMB
    /\ Len(LinesOf(2)) = 2 /\ SizeOf(LinesOf(2)) = max_size_mb * UnitsPerMB

\* the most steps one turn of the while loop takes: the fetch is begun,
\* at most max_retries attempts, the result is looked at, at most MaxRecs
\* records are written, the cursor is read
IterationSteps == max_retries + MaxRecs + 3

\* an upper bound of the steps the run still takes; page never exceeds
\* MaxPages because the last page of the cursor chain carries no cursor
StepsLeft ==
    LET later == (MaxPages - page) * IterationSteps + 2 IN
    CASE pc = "idle"    -> later + IterationSteps + 1
      [] pc = "loop"    -> later + IterationSteps
      [] pc = "request" -> later + IterationSteps - 1 - attempt
      [] pc = "check"   -> later + MaxRecs + 2
      [] pc = "papers"  -> later + (Len(result.data) + 1 - paper_idx) + 1
      [] pc = "finally" -> 1
      [] OTHER          -> 0

\* C20: with a finite cursor chain every run eventually terminates, by
\* returning or by raising: a run that has not terminated can always take
\* a step, every step lowers the natural number StepsLeft (so under the
\* fairness of SpecLive "returned" or "raised" is reached), and no logical
\* fetch makes more than max_retries attempts.
C20_RunTerminates ==
    /\ [][StepsLeft' < StepsLeft]_vars
    /\ [](StepsLeft \in Nat /\ (StepsLeft = 0 <=> Terminated))
    /\ [](~Terminated => ENABLED Next)
    /\ [](Len(attemptLog) <= max_retries)

C20_Witness ==
    /\ Terminated
    /\ Len(pageLog) >= 1 /\ pageLog[1].token # NoToken
    /\ Len(fetchLog) = Len(pageLog) + 1
    /\ Len(attemptLog) = max_retries
====
